---- MODULE Spec2Model ----
(***************************************************************************)
(* Model of App/rate_limiter.py: the TokenBucket class, the module-level   *)
(* registry _buckets with its lock _buckets_lock, and check_rate_limit,    *)
(* called concurrently by request threads; and of require_api_client of    *)
(* App/main.py, the dependency through which every request reaches the     *)
(* limiter.                                                                *)
(*                                                                         *)
(* Numbers.  The clock (time.monotonic) is counted in whole seconds.       *)
(* Token amounts are floats in the code; here they are fixed-point, one    *)
(* token = Unit = 60 units, so that limit_per_min / 60.0 tokens per second *)
(* is exactly limit_per_min units per second and the arithmetic of allow   *)
(* is exact on every clock value of the model.                             *)
(*                                                                         *)
(* Granularity.  Every statement that reads or writes shared state is one  *)
(* step, so that mutual exclusion is the work of the locks and not of the  *)
(* model.                                                                  *)
(***************************************************************************)
EXTENDS Integers, Sequences, FiniteSets

VARIABLES
    now,            \* time.monotonic(), seconds
    heap,           \* the TokenBucket objects ever constructed, by identity
    buckets,        \* _buckets: key -> bucket identity, None when absent
    buckets_lock,   \* _buckets_lock: the thread holding it, or Free
    pc,             \* per thread: the statement it executes next
    loc,            \* per thread: arguments and locals of the running call
    hist,           \* history, per bucket: what was decided on it so far
    budget,         \* calls that may still be started (bounds the runs)
    req,            \* per thread: the request it serves, in require_api_client
    orders,         \* the session's view of mock_market_orders, in insert order
    batch,          \* the running invocation of progress_order_statuses
    fetch           \* the latest call of fetch_orders and what it returned

(***************************************************************************)
(* History.  hist[b] and the fields made, found, afterDeny, waited, before, *)
(* ord, leftThen and sinceAdmit of loc[t] record what happened; no guard   *)
(* and no program variable reads them.  before is the bucket's tokens when *)
(* the call read the clock, leftThen and sinceAdmit are hist[b].left and   *)
(* the time since hist[b].since at that moment.  For bucket b: the key it was made for, the clock at its     *)
(* construction (created) and at the latest clock read of an allow on it   *)
(* (seen), the admits and denies so far, the latest decision (last), the   *)
(* clock read by each admitted call in order (admits), the clock read and  *)
(* the cost of every call in the order the calls took the lock (calls),    *)
(* the clock read by the latest admitted call (since, the construction    *)
(* time before any) and the tokens that call left (left, -1 before any),   *)
(* and, for the calls                                                      *)
(* made since the clock last moved between two calls (the current burst):  *)
(* whether the call before the burst was denied (ep_exh), what the wait    *)
(* before the burst was worth in tokens (ep_refill), and the calls and     *)
(* admits of the burst.                                                    *)
(***************************************************************************)

vars == <<now, heap, buckets, buckets_lock, pc, loc, hist, budget, req,
         orders, batch, fetch>>

\* The rate limiter and the request layer on one side, the order table and
\* the operations on it on the other.
limiter == <<now, heap, buckets, buckets_lock, pc, loc, hist, budget, req>>
store == <<orders, batch, fetch>>

----------------------------------------------------------------------------
\* Bounds of the model.
NumThreads  == 2     \* concurrent request threads
NumKeys     == 2     \* API keys
MaxLimit    == 2     \* largest limit_per_min of the concurrent runs
MaxCalls    == 3     \* calls of check_rate_limit in a concurrent run
TickSec     == 30    \* seconds the clock advances at once
MaxClock    == 60    \* last clock value of a run
SeqMaxLimit == 3     \* largest limit_per_min of the single-caller runs
SeqCalls    == 8     \* calls in a single-caller run
SeqTickSec  == 10    \* clock step of the single-caller runs
SixtyExtra  == 4     \* calls beyond the first 60 in the limit-60 scenario
SixtyClock  == 2     \* seconds the limit-60 scenario lasts
LiveCalls   == 2     \* calls in a run under fair scheduling
HttpCalls   == 2     \* limiter calls in a run of requests
HttpMaxLimit == 1    \* largest rate_limit_per_min of a row in the request runs
MaxOrders   == 2     \* rows of mock_market_orders
MaxRows     == 2     \* largest max_rows of progress_order_statuses
MaxDay      == 1     \* last day orders are dated, the first being day 0
MaxSeller   == 2     \* seller ids
MaxPage     == 3     \* largest page asked of fetch_orders

\* Program constants.
SecPerMin  == 60     \* the 60.0 of refill_rate = float(limit_per_min) / 60.0
Sixty      == 60     \* the example quota of the TokenBucket docstring
DayLen     == 24     \* hours from time.min to the hour of time.max, plus one
PayDelay   == 2      \* hours in the 120 minutes of random.randint(0, 120)
MaxPageSize == 100   \* the 100 of page_size > 100

Threads == 1..NumThreads
Keys    == 1..NumKeys
Limits  == {0 - 1} \cup (0..MaxLimit)

None == 0
Free == 0

Min(a, b) == IF a <= b THEN a ELSE b
Max0(a) == IF a >= 0 THEN a ELSE 0

----------------------------------------------------------------------------
\* Fixed-point image of the floats of the code.
Unit == SecPerMin

\* float(n) for an int n.
ToFloat(n) == n * Unit

\* cost=1.0 of check_rate_limit's call of allow.
Cost == ToFloat(1)

\* float(n) raises OverflowError on an int outside the range of a float
\* (2**1024 and above).  TooLarge stands for those ints: it is above every
\* limit the runs otherwise use and takes part in no arithmetic.
TooLarge == 2^30

FloatOverflows(n) == n >= TooLarge

\* Variant of RefillRate: integer division, limit_per_min // 60.
RefillRateFloorDiv(limit_per_min) == ToFloat(limit_per_min \div SecPerMin)

\* refill_rate = float(limit_per_min) / 60.0, tokens per second.
RefillRate(limit_per_min) == ToFloat(limit_per_min) \div SecPerMin

\* elapsed * self.refill_rate_per_sec
Refilled(elapsed, rate) == elapsed * rate

----------------------------------------------------------------------------
\* What dt seconds are worth at a quota of limit tokens per minute, in
\* sixtieths of a token (dt * limit / 60 tokens).
Earned(dt, limit) == dt * limit

\* One token, in sixtieths.
OneToken == SecPerMin

\* The buckets constructed so far.
Buckets == 1..Len(heap)

NoLocals ==
    [api_key |-> None, limit_per_min |-> 0, refill_rate |-> 0, bucket |-> None,
     cost |-> 0, now |-> 0, elapsed |-> 0, result |-> "none",
     made |-> FALSE, found |-> None, afterDeny |-> FALSE, waited |-> 0,
     before |-> 0, ord |-> 0, leftThen |-> 0, sinceAdmit |-> 0]

\* Variant of NewBucket: the bucket starts empty.
NewBucketEmpty(capacity, refill_rate_per_sec, ts) ==
    [capacity            |-> capacity,
     tokens              |-> ToFloat(0),
     refill_rate_per_sec |-> refill_rate_per_sec,
     last_refill_ts      |-> ts,
     lock                |-> Free]

\* TokenBucket.__init__
NewBucket(capacity, refill_rate_per_sec, ts) ==
    [capacity            |-> capacity,
     tokens              |-> ToFloat(capacity),
     refill_rate_per_sec |-> refill_rate_per_sec,
     last_refill_ts      |-> ts,
     lock                |-> Free]

\* A row of mock_api_clients as the query of require_api_client sees it;
\* NoRow when no row has the api_key.
NoRow == [found |-> FALSE, is_active |-> FALSE, rate_limit_per_min |-> 0,
          platform |-> "none"]

\* The two platforms of the request runs.
Platforms == {"SMARTSTORE", "COUPANG"}

Rows ==
    {NoRow} \cup
    [found : {TRUE}, is_active : BOOLEAN, rate_limit_per_min : 0..HttpMaxLimit,
     platform : Platforms]

\* The frame of a request: where it stands (at), the endpoint, the header,
\* the row the key matches, and the locals of require_api_client.  client
\* is NoRow for None.  status is the HTTP status, 0 while there is none.
\* History: nchecks counts the check_rate_limit calls of the request, ran
\* tells that the endpoint's body ran, fetched that it called fetch_orders,
\* bucket is the bucket the call ran allow on, None if it ran none.
NoRequest ==
    [at |-> "none", endpoint |-> "none", x_api_key |-> None, row |-> NoRow,
     client |-> NoRow, limit_per_min |-> 0, allowed |-> FALSE, status |-> 0,
     nchecks |-> 0, ran |-> FALSE, fetched |-> FALSE, bucket |-> None]

\* allowed = check_rate_limit(...): the request at the call enters it, and
\* takes the boolean when it returns.  A call made by no request leaves the
\* frame as it is.
Calling(r) ==
    IF r.at = "call" THEN [r EXCEPT !.at = "wait", !.nchecks = @ + 1] ELSE r

Returned(r, result, bucket) ==
    IF r.at = "wait"
    THEN [r EXCEPT !.at = "result", !.allowed = (result = "admit"),
                   !.bucket = bucket]
    ELSE r

NewHist(key, ts) ==
    [key |-> key, created |-> ts, seen |-> ts, nadmit |-> 0, ndeny |-> 0,
     since |-> ts, left |-> 0 - 1,
     last |-> "none", ep_exh |-> FALSE, ep_refill |-> 0, ep_calls |-> 0, ep_admit |-> 0,
     admits |-> <<>>, calls |-> <<>>]

----------------------------------------------------------------------------
\* The order table (models.py) and the constants of mock_data_generator.py.
\* Datetimes are whole hours counted from the start of day 0, dates are day
\* numbers.  The Korean strings of the source are written in Latin letters.

\* NULL in a string column; None for a datetime or a date.
Null == "NULL"
NoTime == 0 - 1

\* not x, for a string column: None and the empty string count as false.
Falsy(x) == x = Null \/ x = ""

\* Variant of DayEnd: the end of the range is the first hour of the day.
DayEndAtMidnight(d) == d * DayLen

\* datetime.combine(d, time.min) and datetime.combine(d, time.max)
DayStart(d) == d * DayLen
DayEnd(d) == d * DayLen + (DayLen - 1)

Statuses == {"PAID", "PREPARING_SHIPMENT", "SHIPPED", "DELIVERED", "CANCELLED"}

NORMALIZED_STATUS_FLOW ==
    [s \in {"PAID", "PREPARING_SHIPMENT", "SHIPPED"} |->
        CASE s = "PAID" -> "PREPARING_SHIPMENT"
          [] s = "PREPARING_SHIPMENT" -> "SHIPPED"
          [] s = "SHIPPED" -> "DELIVERED"]

\* Of the four platforms the model has the two of Platforms.
PLATFORM_STATUS_CHOICES ==
    [p \in Platforms |->
        IF p = "SMARTSTORE"
        THEN [s \in Statuses |->
                CASE s = "PAID" -> {"gyeolje-wanryo"}
                  [] s = "PREPARING_SHIPMENT" -> {"sangpum-junbijung"}
                  [] s = "SHIPPED" -> {"baesong-jung"}
                  [] s = "DELIVERED" -> {"baesong-wanryo", "gumae-hwakjeong"}
                  [] s = "CANCELLED" -> {"jumun-chwiso", "gyeolje-chwiso"}]
        ELSE [s \in Statuses |->
                CASE s = "PAID" -> {"ACCEPT"}
                  [] s = "PREPARING_SHIPMENT" -> {"INSTRUCT"}
                  [] s = "SHIPPED" -> {"IN_DELIVERY"}
                  [] s = "DELIVERED" -> {"FINAL_DELIVERY"}
                  [] s = "CANCELLED" -> {"CANCELED"}]]

PLATFORM_DELIVERY_COMPANIES ==
    [p \in Platforms |->
        IF p = "SMARTSTORE"
        THEN {<<"CJ-daehantongun", "CJGLS">>, <<"Lotte-taekbae", "LOTTES">>,
              <<"Hanjin-taekbae", "HANJIN">>}
        ELSE {<<"Coupang-logistics", "CPLG">>, <<"CJ-daehantongun", "CJP">>}]

\* _choose_status(platform): the pairs <<raw, normalized>> it may return.
_choose_status(platform) ==
    UNION {{<<raw, normalized>> : raw \in PLATFORM_STATUS_CHOICES[platform][normalized]} :
              normalized \in DOMAIN PLATFORM_STATUS_CHOICES[platform]}

\* Variant of _next_status: SHIPPED is taken for a final status.
NextStatusUpToShipped(platform, current_normalized) ==
    IF current_normalized \notin {"PAID", "PREPARING_SHIPMENT"}
    THEN {}
    ELSE LET next_normalized == NORMALIZED_STATUS_FLOW[current_normalized] IN
           {<<raw, next_normalized>> :
               raw \in PLATFORM_STATUS_CHOICES[platform][next_normalized]}

\* _next_status(platform, current_normalized): the pairs <<raw, normalized>>
\* it may return; the empty set stands for None.
_next_status(platform, current_normalized) ==
    IF current_normalized \notin DOMAIN NORMALIZED_STATUS_FLOW
    THEN {}
    ELSE LET next_normalized == NORMALIZED_STATUS_FLOW[current_normalized] IN
           {<<raw, next_normalized>> :
               raw \in PLATFORM_STATUS_CHOICES[platform][next_normalized]}

\* _choose_delivery_company(platform): the pairs <<company, code>>.
_choose_delivery_company(platform) == PLATFORM_DELIVERY_COMPANIES[platform]

\* _generate_tracking_number: the platform's prefix, then month, day and
\* seven random digits, which the model leaves out.
_generate_tracking_number(platform) ==
    IF platform = "SMARTSTORE" THEN "CJ" ELSE IF platform = "COUPANG" THEN "CP" ELSE "TRK"

\* Platform(order.platform) raises ValueError on any other string.
IsPlatform(platform) == platform \in Platforms

\* The statuses for which pay_datetime is set.
PaidStatuses == {"PAID", "PREPARING_SHIPMENT", "SHIPPED", "DELIVERED"}
ShippingStatuses == {"SHIPPED", "DELIVERED"}

\* A row of mock_market_orders, with the columns the operations read or
\* write.  stored tells that the row was flushed to the table; a row added
\* to the session is pending until the session commits.
MockMarketOrder(seller_id, platform, order_datetime, pay_datetime, status_raw, status_normalized, delivery, tracking_number, stored) ==
    [seller_id |-> seller_id, platform |-> platform,
     order_datetime |-> order_datetime, pay_datetime |-> pay_datetime,
     status_raw |-> status_raw, status_normalized |-> status_normalized,
     delivery_company |-> delivery[1], delivery_company_code |-> delivery[2],
     tracking_number |-> tracking_number, stored |-> stored]

\* Rows as the table may hold them, whoever wrote them: any platform string,
\* any of the five statuses or NULL, nothing filled in, or the payment time,
\* or the payment time and the shipping columns.
StoredRows ==
    {MockMarketOrder(1, platform, DayStart(day), filled[1], "RAW",
                     status_normalized, filled[2], filled[3], TRUE) :
        platform \in Platforms \cup {"ETSY"},
        day \in 0..MaxDay,
        status_normalized \in Statuses \cup {Null},
        filled \in {<<NoTime, <<Null, Null>>, Null>>,
                    <<0, <<Null, Null>>, Null>>,
                    <<0, <<"ACME", "AC">>, "TRK1">>}}

\* Rows that differ in what fetch_orders filters and sorts on, dated the
\* first or the last hour of a day.
FetchRows ==
    {MockMarketOrder(seller_id, platform, order_datetime, NoTime, "RAW", "PAID",
                     <<Null, Null>>, Null, TRUE) :
        seller_id \in 1..MaxSeller,
        platform \in Platforms,
        order_datetime \in UNION {{DayStart(d), DayStart(d) + (DayLen - 1)} :
                                     d \in 0..MaxDay}}

\* The tables of at most MaxOrders rows out of a set of rows.
Tables(rows) == UNION {[1..n -> rows] : n \in 0..MaxOrders}

\* progress_order_statuses: where the invocation stands (at), its argument,
\* the rows its query returned, in order (candidates, by row number), the
\* position of the loop (i), the counter, and what the latest invocation
\* returned (returned, NoCount before any).  History: before is the table as
\* the invocation found it.
NoCount == 0 - 1
NoBatch ==
    [at |-> "idle", max_rows |-> 0, candidates |-> <<>>, i |-> 1, updated |-> 0,
     returned |-> NoCount, before |-> <<>>]

\* fetch_orders: the arguments of the latest call, the status (400 for the
\* HTTPException, 200 for a return, 0 before any call) and the rows
\* returned, by row number.  History: queried tells that the query ran.
NoFetch ==
    [platform |-> "none", seller_id |-> 0, page |-> 0, page_size |-> 0,
     start_date |-> NoTime, end_date |-> NoTime,
     status |-> 0, queried |-> FALSE, result |-> <<>>]

Init ==
    /\ now = 0
    /\ heap = <<>>
    /\ buckets = [k \in Keys |-> None]
    /\ buckets_lock = Free
    /\ pc = [t \in Threads |-> "idle"]
    /\ loc = [t \in Threads |-> NoLocals]
    /\ hist = <<>>
    /\ budget = MaxCalls
    /\ req = [t \in Threads |-> NoRequest]
    /\ orders = <<>>
    /\ batch = NoBatch
    /\ fetch = NoFetch

----------------------------------------------------------------------------
\* Variant of Call: the unlimited test is limit_per_min < 0.
CallStrictlyNegative(t, key, limit) ==
    /\ pc[t] = "idle"
    /\ budget > 0
    /\ budget' = budget - 1
    /\ IF limit < 0
       THEN /\ loc' = [loc EXCEPT ![t] = [NoLocals EXCEPT
                          !.api_key = key, !.limit_per_min = limit,
                          !.result = "admit"]]
            /\ pc' = [pc EXCEPT ![t] = "ret"]
       ELSE /\ loc' = [loc EXCEPT ![t] = [NoLocals EXCEPT
                          !.api_key = key, !.limit_per_min = limit,
                          !.refill_rate = RefillRate(limit)]]
            /\ pc' = [pc EXCEPT ![t] = "c_lock"]
    /\ req' = [req EXCEPT ![t] = Calling(req[t])]
    /\ UNCHANGED <<now, heap, buckets, buckets_lock, hist, store>>

\* Variant of Call: an unlimited call also forgets the key's bucket.
CallDropsEntry(t, key, limit) ==
    /\ pc[t] = "idle"
    /\ budget > 0
    /\ budget' = budget - 1
    /\ IF limit <= 0
       THEN /\ loc' = [loc EXCEPT ![t] = [NoLocals EXCEPT
                          !.api_key = key, !.limit_per_min = limit,
                          !.result = "admit"]]
            /\ pc' = [pc EXCEPT ![t] = "ret"]
            /\ buckets' = [buckets EXCEPT ![key] = None]
       ELSE /\ loc' = [loc EXCEPT ![t] = [NoLocals EXCEPT
                          !.api_key = key, !.limit_per_min = limit,
                          !.refill_rate = RefillRate(limit)]]
            /\ pc' = [pc EXCEPT ![t] = "c_lock"]
            /\ UNCHANGED buckets
    /\ req' = [req EXCEPT ![t] = Calling(req[t])]
    /\ UNCHANGED <<now, heap, buckets_lock, hist, store>>

\* check_rate_limit(api_key, limit_per_min): the call and its first
\* statements, which touch no shared state.
Call(t, key, limit) ==
    /\ pc[t] = "idle"
    /\ budget > 0
    /\ budget' = budget - 1
    /\ IF limit <= 0
       THEN /\ loc' = [loc EXCEPT ![t] = [NoLocals EXCEPT
                          !.api_key = key, !.limit_per_min = limit,
                          !.result = "admit"]]
            /\ pc' = [pc EXCEPT ![t] = "ret"]
       ELSE IF FloatOverflows(limit)
       THEN /\ loc' = [loc EXCEPT ![t] = [NoLocals EXCEPT
                          !.api_key = key, !.limit_per_min = limit]]
            /\ pc' = [pc EXCEPT ![t] = "error"]
       ELSE /\ loc' = [loc EXCEPT ![t] = [NoLocals EXCEPT
                          !.api_key = key, !.limit_per_min = limit,
                          !.refill_rate = RefillRate(limit)]]
            /\ pc' = [pc EXCEPT ![t] = "c_lock"]
    /\ req' = [req EXCEPT ![t] = Calling(req[t])]
    /\ UNCHANGED <<now, heap, buckets, buckets_lock, hist, store>>

\* Variant of RegistryAcquire: the registry lock is not waited for.
RegistryAcquireNoWait(t) ==
    /\ pc[t] = "c_lock"
    /\ buckets_lock' = t
    /\ pc' = [pc EXCEPT ![t] = "c_get"]
    /\ UNCHANGED <<now, heap, buckets, loc, hist, budget, req, store>>

\* with _buckets_lock:
RegistryAcquire(t) ==
    /\ pc[t] = "c_lock"
    /\ buckets_lock = Free
    /\ buckets_lock' = t
    /\ pc' = [pc EXCEPT ![t] = "c_get"]
    /\ UNCHANGED <<now, heap, buckets, loc, hist, budget, req, store>>

\* Variant of Stale: only an absent bucket is replaced.
StaleOnlyAbsent(bucket, limit_per_min) == bucket = None

\* Variant of Stale: every call replaces the bucket.
StaleAlways(bucket, limit_per_min) == TRUE

\* if bucket is None or bucket.capacity != limit_per_min
Stale(bucket, limit_per_min) ==
    \/ bucket = None
    \/ heap[bucket].capacity # limit_per_min

\* bucket = _buckets.get(api_key), and the test of the if
Lookup(t) ==
    /\ pc[t] = "c_get"
    /\ LET bucket == buckets[loc[t].api_key] IN
         /\ loc' = [loc EXCEPT ![t].bucket = bucket, ![t].found = bucket]
         /\ pc' = [pc EXCEPT ![t] =
                      IF Stale(bucket, loc[t].limit_per_min)
                      THEN "c_new" ELSE "c_unlock"]
    /\ UNCHANGED <<now, heap, buckets, buckets_lock, hist, budget, req, store>>

\* Variant of Construct: a bucket that replaces another starts with the
\* tokens the replaced one had left, up to its own capacity.
ConstructCarriesTokens(t) ==
    /\ pc[t] = "c_new"
    /\ LET fresh == NewBucket(loc[t].limit_per_min, loc[t].refill_rate, now) IN
         heap' = Append(heap,
                    IF loc[t].found = None
                    THEN fresh
                    ELSE [fresh EXCEPT !.tokens =
                             Min(heap[loc[t].found].tokens, fresh.tokens)])
    /\ hist' = Append(hist, NewHist(loc[t].api_key, now))
    /\ loc' = [loc EXCEPT ![t].bucket = Len(heap) + 1, ![t].made = TRUE]
    /\ pc' = [pc EXCEPT ![t] = "c_store"]
    /\ UNCHANGED <<now, buckets, buckets_lock, budget, req, store>>

\* bucket = TokenBucket(capacity=limit_per_min, refill_rate_per_sec=refill_rate)
Construct(t) ==
    /\ pc[t] = "c_new"
    /\ heap' = Append(heap, NewBucket(loc[t].limit_per_min, loc[t].refill_rate, now))
    /\ hist' = Append(hist, NewHist(loc[t].api_key, now))
    /\ loc' = [loc EXCEPT ![t].bucket = Len(heap) + 1, ![t].made = TRUE]
    /\ pc' = [pc EXCEPT ![t] = "c_store"]
    /\ UNCHANGED <<now, buckets, buckets_lock, budget, req, store>>

\* Variant of Store: the bucket is registered under every key.
StoreUnderAnyKey(t) ==
    /\ pc[t] = "c_store"
    /\ buckets' = [k \in Keys |-> loc[t].bucket]
    /\ pc' = [pc EXCEPT ![t] = "c_unlock"]
    /\ UNCHANGED <<now, heap, buckets_lock, loc, hist, budget, req, store>>

\* _buckets[api_key] = bucket
Store(t) ==
    /\ pc[t] = "c_store"
    /\ buckets' = [buckets EXCEPT ![loc[t].api_key] = loc[t].bucket]
    /\ pc' = [pc EXCEPT ![t] = "c_unlock"]
    /\ UNCHANGED <<now, heap, buckets_lock, loc, hist, budget, req, store>>

\* Variant of RegistryRelease: allow is called inside the with block, the
\* registry lock still held.
RegistryReleaseKeepsLock(t) ==
    /\ pc[t] = "c_unlock"
    /\ loc' = [loc EXCEPT ![t].cost = Cost]
    /\ pc' = [pc EXCEPT ![t] = "a_lock"]
    /\ UNCHANGED <<now, heap, buckets, buckets_lock, hist, budget, req, store>>

\* end of the with block, and the call bucket.allow(cost=1.0)
RegistryRelease(t) ==
    /\ pc[t] = "c_unlock"
    /\ buckets_lock' = Free
    /\ loc' = [loc EXCEPT ![t].cost = Cost]
    /\ pc' = [pc EXCEPT ![t] = "a_lock"]
    /\ UNCHANGED <<now, heap, buckets, hist, budget, req, store>>

----------------------------------------------------------------------------
\* TokenBucket.allow(cost=1.0) on loc[t].bucket

\* Variant of BucketAcquire: the bucket lock is not waited for.
BucketAcquireNoWait(t) ==
    /\ pc[t] = "a_lock"
    /\ IF loc[t].bucket = None
       THEN /\ pc' = [pc EXCEPT ![t] = "error"]
            /\ UNCHANGED heap
       ELSE /\ heap' = [heap EXCEPT ![loc[t].bucket].lock = t]
            /\ pc' = [pc EXCEPT ![t] = "a_clock"]
    /\ UNCHANGED <<now, buckets, buckets_lock, loc, hist, budget, req, store>>

\* Variant of BucketAcquire: allow is called on whatever bucket the registry
\* holds for the key by then, not on the local variable.
BucketAcquireRegistered(t) ==
    /\ pc[t] = "a_lock"
    /\ LET b == buckets[loc[t].api_key] IN
         IF b = None
         THEN /\ pc' = [pc EXCEPT ![t] = "error"]
              /\ UNCHANGED <<heap, loc>>
         ELSE /\ heap[b].lock = Free
              /\ heap' = [heap EXCEPT ![b].lock = t]
              /\ loc' = [loc EXCEPT ![t].bucket = b]
              /\ pc' = [pc EXCEPT ![t] = "a_clock"]
    /\ UNCHANGED <<now, buckets, buckets_lock, hist, budget, req, store>>

\* bucket.allow: the attribute lookup raises AttributeError on None and the
\* thread ends in "error"; on a bucket, with self.lock:
BucketAcquire(t) ==
    /\ pc[t] = "a_lock"
    /\ IF loc[t].bucket = None
       THEN /\ pc' = [pc EXCEPT ![t] = "error"]
            /\ UNCHANGED heap
       ELSE /\ heap[loc[t].bucket].lock = Free
            /\ heap' = [heap EXCEPT ![loc[t].bucket].lock = t]
            /\ pc' = [pc EXCEPT ![t] = "a_clock"]
    /\ UNCHANGED <<now, buckets, buckets_lock, loc, hist, budget, req, store>>

\* Variant of ReadClock: the clock value used is one read before the lock
\* was waited for, a tick old.
ReadClockBeforeLock(t) ==
    /\ pc[t] = "a_clock"
    /\ LET b == loc[t].bucket
           early == IF now >= TickSec THEN now - TickSec ELSE now IN
         /\ loc' = [loc EXCEPT ![t].now = early,
                               ![t].elapsed = early - heap[b].last_refill_ts,
                               ![t].afterDeny = (hist[b].last = "deny"),
                               ![t].waited = now - hist[b].seen,
                               ![t].before = heap[b].tokens,
                               ![t].leftThen = hist[b].left,
                               ![t].sinceAdmit = now - hist[b].since]
         /\ heap' = [heap EXCEPT ![b].last_refill_ts = early]
         /\ hist' = [hist EXCEPT ![b].seen = now,
                                 ![b].calls = Append(@, <<early, loc[t].cost>>)]
    /\ pc' = [pc EXCEPT ![t] = "a_refill"]
    /\ UNCHANGED <<now, buckets, buckets_lock, budget, req, store>>

\* Variant of ReadClock: self.last_refill_ts = now is left out.
ReadClockKeepsTimestamp(t) ==
    /\ pc[t] = "a_clock"
    /\ LET b == loc[t].bucket IN
         /\ loc' = [loc EXCEPT ![t].now = now,
                               ![t].elapsed = now - heap[b].last_refill_ts,
                               ![t].afterDeny = (hist[b].last = "deny"),
                               ![t].waited = now - hist[b].seen,
                               ![t].before = heap[b].tokens,
                               ![t].leftThen = hist[b].left,
                               ![t].sinceAdmit = now - hist[b].since]
         /\ hist' = [(IF now = hist[b].seen
                     THEN hist
                     ELSE [hist EXCEPT
                             ![b].seen = now,
                             ![b].ep_exh = (hist[b].last = "deny"),
                             ![b].ep_refill = Earned(now - hist[b].seen,
                                                     heap[b].capacity),
                             ![b].ep_calls = 0,
                             ![b].ep_admit = 0])
                     EXCEPT ![b].calls = Append(@, <<now, loc[t].cost>>)]
    /\ pc' = [pc EXCEPT ![t] = "a_refill"]
    /\ UNCHANGED <<now, heap, buckets, buckets_lock, budget, req, store>>

\* now = time.monotonic(); elapsed = now - self.last_refill_ts
\* self.last_refill_ts = now
ReadClock(t) ==
    /\ pc[t] = "a_clock"
    /\ LET b == loc[t].bucket IN
         /\ loc' = [loc EXCEPT ![t].now = now,
                               ![t].elapsed = now - heap[b].last_refill_ts,
                               ![t].afterDeny = (hist[b].last = "deny"),
                               ![t].waited = now - hist[b].seen,
                               ![t].before = heap[b].tokens,
                               ![t].leftThen = hist[b].left,
                               ![t].sinceAdmit = now - hist[b].since]
         /\ heap' = [heap EXCEPT ![b].last_refill_ts = now]
         /\ hist' = [(IF now = hist[b].seen
                     THEN hist
                     ELSE [hist EXCEPT
                             ![b].seen = now,
                             ![b].ep_exh = (hist[b].last = "deny"),
                             ![b].ep_refill = Earned(now - hist[b].seen,
                                                     heap[b].capacity),
                             ![b].ep_calls = 0,
                             ![b].ep_admit = 0])
                     EXCEPT ![b].calls = Append(@, <<now, loc[t].cost>>)]
    /\ pc' = [pc EXCEPT ![t] = "a_refill"]
    /\ UNCHANGED <<now, buckets, buckets_lock, budget, req, store>>

\* Variant of Refill: only whole tokens are added.
RefillWholeTokens(t) ==
    /\ pc[t] = "a_refill"
    /\ LET b == loc[t].bucket IN
         heap' = [heap EXCEPT ![b].tokens =
                     @ + ToFloat(Refilled(loc[t].elapsed, heap[b].refill_rate_per_sec)
                                    \div Unit)]
    /\ pc' = [pc EXCEPT ![t] = "a_clamp"]
    /\ UNCHANGED <<now, buckets, buckets_lock, loc, hist, budget, req, store>>

\* self.tokens += elapsed * self.refill_rate_per_sec
Refill(t) ==
    /\ pc[t] = "a_refill"
    /\ LET b == loc[t].bucket IN
         heap' = [heap EXCEPT ![b].tokens =
                     @ + Refilled(loc[t].elapsed, heap[b].refill_rate_per_sec)]
    /\ pc' = [pc EXCEPT ![t] = "a_clamp"]
    /\ UNCHANGED <<now, buckets, buckets_lock, loc, hist, budget, req, store>>

\* Variant of Clamp: the clamp is left out.
ClampOmitted(t) ==
    /\ pc[t] = "a_clamp"
    /\ pc' = [pc EXCEPT ![t] = "a_check"]
    /\ UNCHANGED <<now, heap, buckets, buckets_lock, loc, hist, budget, req, store>>

\* if self.tokens > self.capacity: self.tokens = float(self.capacity)
Clamp(t) ==
    /\ pc[t] = "a_clamp"
    /\ LET b == loc[t].bucket IN
         heap' = [heap EXCEPT ![b].tokens =
                     IF @ > ToFloat(heap[b].capacity)
                     THEN ToFloat(heap[b].capacity) ELSE @]
    /\ pc' = [pc EXCEPT ![t] = "a_check"]
    /\ UNCHANGED <<now, buckets, buckets_lock, loc, hist, budget, req, store>>

\* Variant of Check: a denied call is charged its cost.
CheckChargesDeny(t) ==
    /\ pc[t] = "a_check"
    /\ LET b == loc[t].bucket IN
         IF heap[b].tokens >= loc[t].cost
         THEN /\ pc' = [pc EXCEPT ![t] = "a_sub"]
              /\ UNCHANGED <<heap, loc, hist>>
         ELSE /\ pc' = [pc EXCEPT ![t] = "a_unlock"]
              /\ heap' = [heap EXCEPT ![b].tokens = @ - loc[t].cost]
              /\ loc' = [loc EXCEPT ![t].result = "deny",
                            ![t].ord = hist[b].nadmit + hist[b].ndeny + 1]
              /\ hist' = [hist EXCEPT ![b].ndeny = @ + 1, ![b].last = "deny",
                                      ![b].ep_calls = @ + 1]
    /\ UNCHANGED <<now, buckets, buckets_lock, budget, req, store>>

\* Variant of Check: the bucket lock is given up between the test and the
\* subtraction.
CheckReleasesLock(t) ==
    /\ pc[t] = "a_check"
    /\ LET b == loc[t].bucket IN
         IF heap[b].tokens >= loc[t].cost
         THEN /\ pc' = [pc EXCEPT ![t] = "a_sub"]
              /\ heap' = [heap EXCEPT ![b].lock = Free]
              /\ UNCHANGED <<loc, hist>>
         ELSE /\ pc' = [pc EXCEPT ![t] = "a_unlock"]
              /\ loc' = [loc EXCEPT ![t].result = "deny",
                            ![t].ord = hist[b].nadmit + hist[b].ndeny + 1]
              /\ hist' = [hist EXCEPT ![b].ndeny = @ + 1, ![b].last = "deny",
                                      ![b].ep_calls = @ + 1]
              /\ UNCHANGED heap
    /\ UNCHANGED <<now, buckets, buckets_lock, budget, req, store>>

\* Variant of Check: the test is self.tokens > cost.
CheckStrict(t) ==
    /\ pc[t] = "a_check"
    /\ LET b == loc[t].bucket IN
         IF heap[b].tokens > loc[t].cost
         THEN /\ pc' = [pc EXCEPT ![t] = "a_sub"]
              /\ UNCHANGED <<loc, hist>>
         ELSE /\ pc' = [pc EXCEPT ![t] = "a_unlock"]
              /\ loc' = [loc EXCEPT ![t].result = "deny",
                            ![t].ord = hist[b].nadmit + hist[b].ndeny + 1]
              /\ hist' = [hist EXCEPT ![b].ndeny = @ + 1, ![b].last = "deny",
                                      ![b].ep_calls = @ + 1]
    /\ UNCHANGED <<now, heap, buckets, buckets_lock, budget, req, store>>

\* if self.tokens >= cost: ... else: return False
Check(t) ==
    /\ pc[t] = "a_check"
    /\ LET b == loc[t].bucket IN
         IF heap[b].tokens >= loc[t].cost
         THEN /\ pc' = [pc EXCEPT ![t] = "a_sub"]
              /\ UNCHANGED <<loc, hist>>
         ELSE /\ pc' = [pc EXCEPT ![t] = "a_unlock"]
              /\ loc' = [loc EXCEPT ![t].result = "deny",
                            ![t].ord = hist[b].nadmit + hist[b].ndeny + 1]
              /\ hist' = [hist EXCEPT ![b].ndeny = @ + 1, ![b].last = "deny",
                                      ![b].ep_calls = @ + 1]
    /\ UNCHANGED <<now, heap, buckets, buckets_lock, budget, req, store>>

\* Variant of Consume: the call is admitted and the cost is not subtracted.
ConsumeKeepsTokens(t) ==
    /\ pc[t] = "a_sub"
    /\ LET b == loc[t].bucket IN
         /\ loc' = [loc EXCEPT ![t].result = "admit",
                       ![t].ord = hist[b].nadmit + hist[b].ndeny + 1]
         /\ hist' = [hist EXCEPT ![b].nadmit = @ + 1, ![b].last = "admit",
                                 ![b].ep_calls = @ + 1, ![b].ep_admit = @ + 1,
                                 ![b].admits = Append(@, loc[t].now),
                                 ![b].since = loc[t].now,
                                 ![b].left = heap[b].tokens]
    /\ pc' = [pc EXCEPT ![t] = "a_unlock"]
    /\ UNCHANGED <<now, heap, buckets, buckets_lock, budget, req, store>>

\* self.tokens -= cost; return True
Consume(t) ==
    /\ pc[t] = "a_sub"
    /\ LET b == loc[t].bucket IN
         /\ heap' = [heap EXCEPT ![b].tokens = @ - loc[t].cost]
         /\ loc' = [loc EXCEPT ![t].result = "admit",
                       ![t].ord = hist[b].nadmit + hist[b].ndeny + 1]
         /\ hist' = [hist EXCEPT ![b].nadmit = @ + 1, ![b].last = "admit",
                                 ![b].ep_calls = @ + 1, ![b].ep_admit = @ + 1,
                                 ![b].admits = Append(@, loc[t].now),
                                 ![b].since = loc[t].now,
                                 ![b].left = heap'[b].tokens]
    /\ pc' = [pc EXCEPT ![t] = "a_unlock"]
    /\ UNCHANGED <<now, buckets, buckets_lock, budget, req, store>>

\* Variant of BucketRelease: allow returns with the bucket lock still held.
BucketReleaseKeepsLock(t) ==
    /\ pc[t] = "a_unlock"
    /\ pc' = [pc EXCEPT ![t] = "ret"]
    /\ UNCHANGED <<now, heap, buckets, buckets_lock, loc, hist, budget, req, store>>

\* end of the with block of allow
BucketRelease(t) ==
    /\ pc[t] = "a_unlock"
    /\ LET b == loc[t].bucket IN
         heap' = [heap EXCEPT ![b].lock = Free]
    /\ pc' = [pc EXCEPT ![t] = "ret"]
    /\ UNCHANGED <<now, buckets, buckets_lock, loc, hist, budget, req, store>>

\* the caller takes the boolean
Return(t) ==
    /\ pc[t] = "ret"
    /\ pc' = [pc EXCEPT ![t] = "idle"]
    /\ loc' = [loc EXCEPT ![t] = NoLocals]
    /\ req' = [req EXCEPT ![t] = Returned(req[t], loc[t].result, loc[t].bucket)]
    /\ UNCHANGED <<now, heap, buckets, buckets_lock, hist, budget, store>>

\* the monotonic clock advances
Tick(d, last) ==
    /\ now + d <= last
    /\ now' = now + d
    /\ UNCHANGED <<heap, buckets, buckets_lock, pc, loc, hist, budget, req, store>>

Step(t) ==
    \/ RegistryAcquire(t)
    \/ Lookup(t)
    \/ Construct(t)
    \/ Store(t)
    \/ RegistryRelease(t)
    \/ BucketAcquire(t)
    \/ ReadClock(t)
    \/ Refill(t)
    \/ Clamp(t)
    \/ Check(t)
    \/ Consume(t)
    \/ BucketRelease(t)
    \/ Return(t)

Next ==
    \/ \E t \in Threads, key \in Keys, limit \in Limits : Call(t, key, limit)
    \/ \E t \in Threads : Step(t)
    \/ Tick(TickSec, MaxClock)

Spec == Init /\ [][Next]_vars

----------------------------------------------------------------------------
\* A single caller on one key whose quota stays what the first call gave.
InitSeq ==
    /\ now = 0
    /\ heap = <<>>
    /\ buckets = [k \in Keys |-> None]
    /\ buckets_lock = Free
    /\ pc = [t \in Threads |-> "idle"]
    /\ loc = [t \in Threads |-> NoLocals]
    /\ hist = <<>>
    /\ budget = SeqCalls
    /\ req = [t \in Threads |-> NoRequest]
    /\ orders = <<>>
    /\ batch = NoBatch
    /\ fetch = NoFetch

NextSeq ==
    \/ \E limit \in 1..SeqMaxLimit :
          /\ heap # <<>> => heap[1].capacity = limit
          /\ Call(1, 1, limit)
    \/ Step(1)
    \/ Tick(SeqTickSec, MaxClock)

SpecSeq == InitSeq /\ [][NextSeq]_vars

\* A single caller on one key whose quota is 60 per minute, one token per
\* second, the clock advancing by whole seconds.
InitSixty ==
    /\ now = 0
    /\ heap = <<>>
    /\ buckets = [k \in Keys |-> None]
    /\ buckets_lock = Free
    /\ pc = [t \in Threads |-> "idle"]
    /\ loc = [t \in Threads |-> NoLocals]
    /\ hist = <<>>
    /\ budget = Sixty + SixtyExtra
    /\ req = [t \in Threads |-> NoRequest]
    /\ orders = <<>>
    /\ batch = NoBatch
    /\ fetch = NoFetch

NextSixty ==
    \/ Call(1, 1, Sixty)
    \/ Step(1)
    \/ Tick(1, SixtyClock)

SpecSixty == InitSixty /\ [][NextSixty]_vars

\* bucket.allow(cost) called directly on a bucket, with any cost.
AllowCall(t, b, cost) ==
    /\ pc[t] = "idle"
    /\ b \in Buckets
    /\ budget > 0
    /\ budget' = budget - 1
    /\ loc' = [loc EXCEPT ![t] = [NoLocals EXCEPT !.bucket = b, !.cost = cost]]
    /\ pc' = [pc EXCEPT ![t] = "a_lock"]
    /\ UNCHANGED <<now, heap, buckets, buckets_lock, hist, req, store>>

\* The costs tried: negative, zero, half a token, one token, more than any
\* capacity.
Costs == {ToFloat(0 - 1), ToFloat(0), Unit \div 2, ToFloat(1), ToFloat(MaxLimit + 1)}

\* Threads calling check_rate_limit on one key, with limits up to an int
\* float() rejects, and allow(cost) on its buckets.
NextApi ==
    \/ \E t \in Threads, limit \in (1..MaxLimit) \cup {TooLarge} : Call(t, 1, limit)
    \/ \E t \in Threads, b \in 1..MaxCalls, cost \in Costs : AllowCall(t, b, cost)
    \/ \E t \in Threads : Step(t)
    \/ Tick(TickSec, MaxClock)

SpecApi == Init /\ [][NextApi]_vars

----------------------------------------------------------------------------
\* Calls under fair scheduling: a thread that can take a step, again and
\* again, takes it.  Lock is not first-come-first-served, so a waiting
\* thread is owed the lock only if it is free again and again (SF).
InitLive ==
    /\ now = 0
    /\ heap = <<>>
    /\ buckets = [k \in Keys |-> None]
    /\ buckets_lock = Free
    /\ pc = [t \in Threads |-> "idle"]
    /\ loc = [t \in Threads |-> NoLocals]
    /\ hist = <<>>
    /\ budget = LiveCalls
    /\ req = [t \in Threads |-> NoRequest]
    /\ orders = <<>>
    /\ batch = NoBatch
    /\ fetch = NoFetch

SpecLive ==
    /\ InitLive
    /\ [][Next]_vars
    /\ \A t \in Threads : SF_vars(Step(t))

----------------------------------------------------------------------------
\* Requests served by threads: require_api_client, then the endpoint.

\* The requests that will still call the limiter.
Pending == {u \in Threads : req[u].at \in {"query", "limit", "call"}}

\* A request arrives for an endpoint with header X-API-Key; row is what
\* mock_api_clients holds for that key at this time.
Receive(t, endpoint, x_api_key, row) ==
    /\ req[t].at = "none"
    /\ pc[t] = "idle"
    /\ budget > Cardinality(Pending)
    /\ req' = [req EXCEPT ![t] = [NoRequest EXCEPT
                  !.at = "query", !.endpoint = endpoint,
                  !.x_api_key = x_api_key, !.row = row]]
    /\ UNCHANGED <<now, heap, buckets, buckets_lock, pc, loc, hist, budget, store>>

\* Variant of QueryClient: the filter on is_active is missing.
QueryClientIgnoresActive(t) ==
    /\ req[t].at = "query"
    /\ LET client == req[t].row IN
         req' = [req EXCEPT ![t] =
                    IF ~client.found
                    THEN [@ EXCEPT !.status = 401, !.at = "done"]
                    ELSE [@ EXCEPT !.client = client, !.at = "limit"]]
    /\ UNCHANGED <<now, heap, buckets, buckets_lock, pc, loc, hist, budget, store>>

\* client = db.query(MockApiClient).filter(api_key == x_api_key,
\* is_active.is_(True)).first(); if client is None: raise HTTPException(401)
QueryClient(t) ==
    /\ req[t].at = "query"
    /\ LET client == IF req[t].row.found /\ req[t].row.is_active
                     THEN req[t].row ELSE NoRow IN
         req' = [req EXCEPT ![t] =
                    IF ~client.found
                    THEN [@ EXCEPT !.status = 401, !.at = "done"]
                    ELSE [@ EXCEPT !.client = client, !.at = "limit"]]
    /\ UNCHANGED <<now, heap, buckets, buckets_lock, pc, loc, hist, budget, store>>

\* limit_per_min = getattr(client, "rate_limit_per_min", DEFAULT_RATE_LIMIT_PER_MIN):
\* the column is not nullable, the attribute is always there.
ReadLimit(t) ==
    /\ req[t].at = "limit"
    /\ req' = [req EXCEPT ![t].limit_per_min = req[t].client.rate_limit_per_min,
                          ![t].at = "call"]
    /\ UNCHANGED <<now, heap, buckets, buckets_lock, pc, loc, hist, budget, store>>

\* allowed = check_rate_limit(api_key=x_api_key, limit_per_min=limit_per_min)
CheckRateLimit(t) ==
    /\ req[t].at = "call"
    /\ Call(t, req[t].x_api_key, req[t].limit_per_min)

\* Variant of Decide: the endpoint runs whatever the limiter said.
DecideIgnoresDeny(t) ==
    /\ req[t].at = "result"
    /\ req' = [req EXCEPT ![t].at = "handler"]
    /\ UNCHANGED <<now, heap, buckets, buckets_lock, pc, loc, hist, budget, store>>

\* if not allowed: raise HTTPException(429); return client
Decide(t) ==
    /\ req[t].at = "result"
    /\ req' = [req EXCEPT ![t] =
                  IF ~req[t].allowed
                  THEN [@ EXCEPT !.status = 429, !.at = "done"]
                  ELSE [@ EXCEPT !.at = "handler"]]
    /\ UNCHANGED <<now, heap, buckets, buckets_lock, pc, loc, hist, budget, store>>

\* Variant of Handler: the orders are fetched before the platform is tested.
HandlerFetchesFirst(t) ==
    /\ req[t].at = "handler"
    /\ req' = [req EXCEPT ![t].ran = TRUE,
                          ![t].status = IF req[t].client.platform # req[t].endpoint
                                        THEN 403 ELSE 200,
                          ![t].fetched = TRUE,
                          ![t].at = "done"]
    /\ UNCHANGED <<now, heap, buckets, buckets_lock, pc, loc, hist, budget, store>>

\* The endpoint's body, run with the client the dependency returned:
\* if client.platform != <the endpoint's platform>: raise HTTPException(403);
\* else the orders are fetched and returned.
Handler(t) ==
    /\ req[t].at = "handler"
    /\ req' = [req EXCEPT ![t].ran = TRUE,
                          ![t].status = IF req[t].client.platform # req[t].endpoint
                                        THEN 403 ELSE 200,
                          ![t].fetched = (req[t].client.platform = req[t].endpoint),
                          ![t].at = "done"]
    /\ UNCHANGED <<now, heap, buckets, buckets_lock, pc, loc, hist, budget, store>>

\* The response is sent; the thread is free for the next request.
Respond(t) ==
    /\ req[t].at = "done"
    /\ req' = [req EXCEPT ![t] = NoRequest]
    /\ UNCHANGED <<now, heap, buckets, buckets_lock, pc, loc, hist, budget, store>>

InitHttp ==
    /\ now = 0
    /\ heap = <<>>
    /\ buckets = [k \in Keys |-> None]
    /\ buckets_lock = Free
    /\ pc = [t \in Threads |-> "idle"]
    /\ loc = [t \in Threads |-> NoLocals]
    /\ hist = <<>>
    /\ budget = HttpCalls
    /\ req = [t \in Threads |-> NoRequest]
    /\ orders = <<>>
    /\ batch = NoBatch
    /\ fetch = NoFetch

NextHttp ==
    \/ \E t \in Threads, endpoint \in Platforms, x_api_key \in Keys, row \in Rows :
          Receive(t, endpoint, x_api_key, row)
    \/ \E t \in Threads : QueryClient(t)
    \/ \E t \in Threads : ReadLimit(t)
    \/ \E t \in Threads : CheckRateLimit(t)
    \/ \E t \in Threads : Step(t)
    \/ \E t \in Threads : Decide(t)
    \/ \E t \in Threads : Handler(t)
    \/ \E t \in Threads : Respond(t)
    \/ Tick(TickSec, MaxClock)

SpecHttp == InitHttp /\ [][NextHttp]_vars

----------------------------------------------------------------------------
\* Properties.

Decided(t) == loc[t].result # "none"

\* The threads standing between the refill statement of allow and its clamp
\* on bucket b, inside the bucket's lock.
MidRefill(b) == {t \in Threads : pc[t] = "a_clamp" /\ loc[t].bucket = b}

\* C1: every bucket made by check_rate_limit has 0 <= tokens <= capacity,
\* under every interleaving and after any idle time; the one place where
\* tokens may stand above capacity is inside the bucket's lock, between the
\* refill statement of allow and the clamp that follows it.
C1_TokensInRange ==
    \A b \in Buckets :
        /\ heap[b].tokens >= 0
        /\ MidRefill(b) = {} => heap[b].tokens <= ToFloat(heap[b].capacity)

\* A call found a full bucket after an idle time worth at least one token:
\* the refill overshot the capacity and the clamp has brought it back.
C1_Witness ==
    \E t \in Threads :
        /\ pc[t] = "a_check"
        /\ hist[loc[t].bucket].nadmit = 0
        /\ Earned(loc[t].waited, heap[loc[t].bucket].capacity) >= OneToken
        /\ heap[loc[t].bucket].tokens = ToFloat(heap[loc[t].bucket].capacity)

\* C2: on a bucket of capacity C, as long as the clock has not moved since
\* the bucket was made, the i-th allow(1.0) is admitted exactly when i <= C:
\* the first C calls admit and the (C+1)-th denies.
C2_AdmissionBound ==
    \A t \in Threads :
        (/\ Decided(t)
         /\ loc[t].ord > 0
         /\ hist[loc[t].bucket].created = loc[t].now)
        => ((loc[t].result = "admit") <=> (loc[t].ord <= heap[loc[t].bucket].capacity))

\* The (C+1)-th call on a fresh bucket of the largest capacity was denied.
C2_Witness ==
    \E t \in Threads :
        /\ pc[t] = "ret"
        /\ loc[t].limit_per_min = SeqMaxLimit
        /\ loc[t].ord = SeqMaxLimit + 1
        /\ loc[t].result = "deny"
        /\ hist[loc[t].bucket].created = loc[t].now
        /\ hist[loc[t].bucket].nadmit = SeqMaxLimit

\* C3: while the clock stands still after a bucket was made, concurrent
\* allow(1.0) calls on it lose no update: the tokens left are the capacity
\* minus the admits, and the admits are min(calls decided, capacity), so that
\* N calls on k whole tokens admit min(N, k) and deny the rest.
C3_NoLostUpdate ==
    \A b \in Buckets :
        hist[b].created = now =>
            /\ heap[b].tokens = ToFloat(heap[b].capacity - hist[b].nadmit)
            /\ hist[b].nadmit = Min(hist[b].nadmit + hist[b].ndeny, heap[b].capacity)

\* Two calls on the same bucket overlapped while it held one token: the
\* first to take the lock was admitted and has left allow, the second was
\* denied and still holds the lock; no token is left.
C3_Witness ==
    \E t1, t2 \in Threads :
        /\ t1 # t2
        /\ loc[t1].bucket = loc[t2].bucket
        /\ loc[t1].bucket # None
        /\ hist[loc[t1].bucket].created = now
        /\ pc[t1] = "ret" /\ loc[t1].result = "admit"
        /\ pc[t2] = "a_unlock" /\ loc[t2].result = "deny"
        /\ loc[t1].ord = 1 /\ loc[t2].ord = 2
        /\ heap[loc[t1].bucket].tokens = 0

\* C4: a call that follows a denied call on the bucket after a wait of dt
\* seconds with dt * refill_rate_per_sec >= 1.0 is admitted.
C4_RefillAfterDeny ==
    \A t \in Threads :
        (/\ Decided(t)
         /\ loc[t].afterDeny
         /\ Earned(loc[t].waited, heap[loc[t].bucket].capacity) >= OneToken)
        => loc[t].result = "admit"

\* A call was admitted after a deny and a wait worth exactly one token.
C4_Witness ==
    \E t \in Threads :
        /\ pc[t] = "ret"
        /\ loc[t].afterDeny
        /\ Earned(loc[t].waited, heap[loc[t].bucket].capacity) = OneToken
        /\ loc[t].result = "admit"

\* C5: a check_rate_limit call with limit_per_min <= 0 returns admit, and
\* does so at once, whatever was called before and whatever bucket its key
\* has.
C5_UnlimitedBypass ==
    \A t \in Threads :
        (pc[t] # "idle" /\ loc[t].limit_per_min <= 0)
        => (pc[t] = "ret" /\ loc[t].result = "admit")

\* An unlimited call returned admit for a key whose bucket is exhausted.
C5_Witness ==
    \E t \in Threads :
        /\ pc[t] = "ret"
        /\ loc[t].limit_per_min < 0
        /\ loc[t].result = "admit"
        /\ buckets[loc[t].api_key] # None
        /\ heap[buckets[loc[t].api_key]].tokens < Cost
        /\ hist[buckets[loc[t].api_key]].ndeny > 0

\* C6: a check_rate_limit call with limit_per_min <= 0 is one step that
\* returns without touching the registry, its lock or any bucket: no entry is
\* made or dropped, and every bucket keeps its capacity, tokens, timestamp
\* and lock.
C6_UnlimitedFrame ==
    [][\A t \in Threads :
          (pc[t] = "idle" /\ pc'[t] # "idle" /\ loc'[t].limit_per_min <= 0)
          => /\ pc'[t] = "ret"
             /\ buckets' = buckets
             /\ buckets_lock' = buckets_lock
             /\ heap' = heap]_vars

\* An unlimited call has returned for a key whose bucket was used before
\* and is still registered with its old tokens and its old timestamp.
C6_Witness ==
    \E t \in Threads :
        /\ pc[t] = "ret"
        /\ loc[t].limit_per_min <= 0
        /\ buckets[loc[t].api_key] # None
        /\ hist[buckets[loc[t].api_key]].nadmit > 0
        /\ heap[buckets[loc[t].api_key]].tokens
               < ToFloat(heap[buckets[loc[t].api_key]].capacity)
        /\ heap[buckets[loc[t].api_key]].last_refill_ts < now

\* C7: a call with limit L' > 0 that finds the key registered with a bucket
\* of another capacity leaves the with block, before its allow, with the
\* key registered to a new bucket of capacity L' holding L' tokens, whatever
\* the old bucket held.
C7_QuotaChangeReplaces ==
    \A t \in Threads :
        (/\ pc[t] = "c_unlock"
         /\ loc[t].found # None
         /\ heap[loc[t].found].capacity # loc[t].limit_per_min)
        => /\ loc[t].made
           /\ loc[t].bucket # loc[t].found
           /\ buckets[loc[t].api_key] = loc[t].bucket
           /\ heap[loc[t].bucket].capacity = loc[t].limit_per_min
           /\ heap[loc[t].bucket].tokens = ToFloat(loc[t].limit_per_min)

\* An exhausted bucket, on which a call was denied, has been replaced by a
\* full bucket of a larger capacity.
C7_Witness ==
    \E t \in Threads :
        /\ pc[t] = "c_unlock"
        /\ loc[t].found # None
        /\ heap[loc[t].found].capacity < loc[t].limit_per_min
        /\ hist[loc[t].found].ndeny > 0
        /\ heap[loc[t].found].tokens < Cost
        /\ loc[t].made
        /\ heap[buckets[loc[t].api_key]].tokens = ToFloat(loc[t].limit_per_min)

\* C8: single caller, limit 60.  When a call was denied and the clock then
\* advances by what is worth exactly m whole tokens, m <= capacity, the calls
\* made before the clock moves again admit exactly the first m: after the
\* 60 admits and the deny at the start, one second later one call admits and
\* the next denies.
C8_WholeTokenRefill ==
    \A b \in Buckets :
        LET m == hist[b].ep_refill \div OneToken IN
        (/\ hist[b].ep_exh
         /\ hist[b].ep_refill % OneToken = 0
         /\ m <= heap[b].capacity)
        => hist[b].ep_admit = Min(hist[b].ep_calls, m)

\* 60 admits and a deny at the start, then, one second later, one admit
\* and one deny.
C8_Witness ==
    \E b \in Buckets :
        /\ heap[b].capacity = Sixty
        /\ hist[b].created = 0
        /\ now = 1
        /\ hist[b].ep_exh
        /\ hist[b].ep_refill = OneToken
        /\ hist[b].ep_calls = 2
        /\ hist[b].ep_admit = 1
        /\ hist[b].nadmit = Sixty + 1
        /\ hist[b].ndeny = 2
        /\ hist[b].last = "deny"

\* The statements of allow, where a thread has its bucket in hand.
AllowPcs == {"a_lock", "a_clock", "a_refill", "a_clamp", "a_check", "a_sub", "a_unlock"}

\* C9: lookup-or-create-or-replace is atomic.  As long as every bucket made
\* for a key was made with the same limit, only one bucket was made for the
\* key, every caller of that key runs allow on it, and while the clock
\* stands still it admits at most its limit.
C9_AtomicLookupOrCreate ==
    \A k \in Keys :
        LET made == {b \in Buckets : hist[b].key = k} IN
        (\A b1, b2 \in made : heap[b1].capacity = heap[b2].capacity)
        => /\ Cardinality(made) <= 1
           /\ \A t \in Threads :
                 (loc[t].api_key = k /\ pc[t] \in AllowPcs) => loc[t].bucket \in made
           /\ \A b \in made : hist[b].created = now => hist[b].nadmit <= heap[b].capacity

\* Two first calls for an unseen key, same limit 1, overlapped: one made the
\* bucket, the other found it; one was admitted, the other denied.
C9_Witness ==
    \E t1, t2 \in Threads :
        /\ Len(heap) = 1
        /\ now = 0
        /\ loc[t1].bucket = 1 /\ loc[t2].bucket = 1
        /\ loc[t1].made /\ ~loc[t2].made
        /\ loc[t1].limit_per_min = loc[t2].limit_per_min
        /\ pc[t1] = "ret" /\ pc[t2] = "ret"
        /\ {loc[t1].result, loc[t2].result} = {"admit", "deny"}

HoldsRegistry(t) == buckets_lock = t

HoldsBucket(t) == \E b \in Buckets : heap[b].lock = t

\* C10: no thread holds the registry lock and a bucket lock at once, and no
\* state is a deadlock: every thread inside a call can take a step, or waits
\* for a lock whose holder can.
C10_NoNestingNoDeadlock ==
    /\ \A t \in Threads : ~(HoldsRegistry(t) /\ HoldsBucket(t))
    /\ \A t \in Threads :
          pc[t] # "idle" =>
             \/ ENABLED Step(t)
             \/ /\ pc[t] = "c_lock"
                /\ buckets_lock # Free
                /\ ENABLED Step(buckets_lock)
             \/ /\ pc[t] = "a_lock"
                /\ heap[loc[t].bucket].lock # Free
                /\ ENABLED Step(heap[loc[t].bucket].lock)

\* One thread holds the registry lock while the other holds a bucket lock.
C10_Witness ==
    \E t1, t2 \in Threads :
        /\ t1 # t2
        /\ HoldsRegistry(t1)
        /\ HoldsBucket(t2)
        /\ pc[t1] = "c_store"
        /\ loc[t1].api_key = loc[t2].api_key

\* C11: check_rate_limit ends with true or false for every key and every
\* integer limit, and allow(cost) with a boolean for every cost: no call ends
\* in an exception.
C11_AlwaysBoolean ==
    \A t \in Threads :
        /\ pc[t] # "error"
        /\ pc[t] = "ret" => loc[t].result \in {"admit", "deny"}

\* C12: when allow(cost) denies, the bucket holds what it held when the call
\* read the clock plus the refill earned since the previous call, capped at
\* the capacity, and its timestamp is the clock the call read: the cost is
\* not deducted.
C12_DenySubtractsNothing ==
    \A t \in Threads :
        pc[t] = "a_unlock" /\ loc[t].result = "deny" =>
            LET b == loc[t].bucket IN
                /\ heap[b].tokens =
                       Min(ToFloat(heap[b].capacity),
                           loc[t].before + Earned(loc[t].waited, heap[b].capacity))
                /\ heap[b].last_refill_ts = loc[t].now

\* A call is denied on a bucket that was not empty and had earned a refill
\* since its previous call: the refill is kept, the cost is not taken.
C12_Witness ==
    \E t \in Threads :
        /\ pc[t] = "a_unlock"
        /\ loc[t].result = "deny"
        /\ loc[t].before > 0
        /\ loc[t].waited > 0
        /\ heap[loc[t].bucket].tokens > loc[t].before
        /\ heap[loc[t].bucket].tokens < ToFloat(heap[loc[t].bucket].capacity)

\* C13: on a bucket of capacity L, which is the one bucket of a key always
\* checked with the limit L, the calls admitted within any stretch of T
\* seconds, timed by the clock each call read inside allow, number at most
\* L + T * L / 60, however the callers interleave.  In sixtieths of a token:
\* 60 * count <= 60 * L + T * L.
C13_WindowBound ==
    \A b \in Buckets :
        LET a == hist[b].admits IN
            \A i \in 1..Len(a), j \in 1..Len(a) :
                i <= j =>
                    (j - i + 1) * OneToken <=
                        ToFloat(heap[b].capacity) + Earned(a[j] - a[i], heap[b].capacity)

\* Two threads were admitted on one bucket as often as the bound allows over
\* a stretch of positive length: the burst first, then a call on the refill.
C13_Witness ==
    \E b \in Buckets :
        LET a == hist[b].admits IN
            /\ Len(a) > heap[b].capacity
            /\ a[Len(a)] > a[1]
            /\ Len(a) * OneToken =
                   ToFloat(heap[b].capacity) + Earned(a[Len(a)] - a[1], heap[b].capacity)
            /\ \E t \in Threads, u \in Threads :
                   /\ t # u
                   /\ pc[t] = "ret" /\ loc[t].bucket = b /\ loc[t].result = "admit"
                   /\ pc[u] = "ret" /\ loc[u].bucket = b /\ loc[u].result = "admit"

\* The key of the check_rate_limit call that thread t is making or starting
\* in this step.
KeyOfStep(t) == IF pc[t] = "idle" THEN loc'[t].api_key ELSE loc[t].api_key

\* A step of a check_rate_limit call for key A leaves key B's registry entry
\* and the tokens, timestamp and capacity of B's bucket as they were.
LeavesOtherKeys ==
    \A t \in Threads :
        pc'[t] # pc[t] =>
            \A B \in Keys \ {KeyOfStep(t)} :
                /\ buckets'[B] = buckets[B]
                /\ buckets[B] # None =>
                      /\ heap'[buckets[B]].tokens = heap[buckets[B]].tokens
                      /\ heap'[buckets[B]].last_refill_ts = heap[buckets[B]].last_refill_ts
                      /\ heap'[buckets[B]].capacity = heap[buckets[B]].capacity

NoSharedBucket ==
    \A A \in Keys, B \in Keys :
        A # B /\ buckets[A] # None => buckets[A] # buckets[B]

\* C14: no bucket is registered under two keys, and no step of a
\* check_rate_limit call for key A changes the registry entry of another key
\* B or the tokens, timestamp or capacity of B's bucket.
C14_KeysIsolated == []NoSharedBucket /\ [][LeavesOtherKeys]_vars

\* A call for one key has just taken a token from its bucket while the other
\* key has a bucket of its own that was used before.
C14_Witness ==
    \E t \in Threads, B \in Keys :
        /\ pc[t] = "a_unlock"
        /\ loc[t].result = "admit"
        /\ loc[t].api_key # B
        /\ buckets[B] # None
        /\ hist[buckets[B]].nadmit > 0
        /\ heap[buckets[B]].tokens < ToFloat(heap[buckets[B]].capacity)

\* The request's key matched an active client.
ValidKey(r) == r.row.found /\ r.row.is_active

\* C15: a request with a valid active key makes exactly one check_rate_limit
\* call, for its key and with the client's limit; on deny it ends with 429
\* and the endpoint's body has not run; on admit the client record goes to
\* the endpoint; and a check_rate_limit call that has decided only unlocks
\* and returns, it does not try again.
C15_SingleShotCheck ==
    \A t \in Threads :
        LET r == req[t] IN
            /\ r.nchecks <= 1
            /\ r.at \in {"wait", "result", "handler"} => r.nchecks = 1
            /\ r.at = "done" /\ ValidKey(r) => r.nchecks = 1
            /\ r.at = "wait" =>
                  /\ pc[t] # "idle"
                  /\ loc[t].api_key = r.x_api_key
                  /\ loc[t].limit_per_min = r.row.rate_limit_per_min
            /\ r.at = "done" /\ r.nchecks = 1 /\ ~r.allowed =>
                  r.status = 429 /\ ~r.ran
            /\ r.status = 429 => r.nchecks = 1 /\ ~r.allowed /\ ~r.ran
            /\ r.at = "handler" \/ r.ran =>
                  r.allowed /\ r.client = r.row /\ ValidKey(r)
            /\ Decided(t) => pc[t] \in {"a_unlock", "ret"}

\* One request was admitted and served by its endpoint, another for the same
\* key was denied by its one check and ends with 429.
C15_Witness ==
    \E t \in Threads, u \in Threads :
        /\ req[t].at = "done" /\ req[t].status = 429 /\ req[t].nchecks = 1
        /\ req[u].at = "done" /\ req[u].status = 200 /\ req[u].ran
        /\ req[u].x_api_key = req[t].x_api_key

\* The row of the request that thread t's step belongs to.
RowOfStep(t) == IF req[t].at = "none" THEN req'[t].row ELSE req[t].row

\* C16: a request whose key matches no active client ends with 401 without
\* a check_rate_limit call: once past the query it stands at its response,
\* its thread is not in the limiter and its endpoint has not run; only
\* requests with an active client are ever inside the limiter; and no step
\* of such a request changes the buckets, the registry, its lock, or what
\* was decided on any bucket.
C16_RejectedBeforeLimiter ==
    /\ [](\A t \in Threads :
            LET r == req[t] IN
                /\ (r.at \notin {"none", "query"} /\ ~ValidKey(r)) =>
                      /\ r.at = "done"
                      /\ r.status = 401
                      /\ r.nchecks = 0
                      /\ ~r.ran
                      /\ pc[t] = "idle"
                /\ pc[t] # "idle" => ValidKey(r) /\ loc[t].api_key = r.x_api_key)
    /\ [][\A t \in Threads :
             (req'[t] # req[t] /\ ~(RowOfStep(t).found /\ RowOfStep(t).is_active)) =>
                 UNCHANGED <<heap, buckets, buckets_lock, hist, pc, loc>>]_vars

\* A request with the key of a deactivated client ends with 401 while the
\* key still has its bucket, used when the client was active.
C16_Witness ==
    \E t \in Threads :
        /\ req[t].at = "done"
        /\ req[t].status = 401
        /\ req[t].row.found
        /\ ~req[t].row.is_active
        /\ buckets[req[t].x_api_key] # None
        /\ hist[buckets[req[t].x_api_key]].nadmit > 0

C18_InRangeOnReturn ==
    \A t \in Threads :
        pc[t] = "a_unlock" =>
            /\ heap[loc[t].bucket].tokens >= 0
            /\ heap[loc[t].bucket].tokens <= ToFloat(heap[loc[t].bucket].capacity)

\* C19 as stated: every call that itself made the bucket, for an absent key
\* or in place of a bucket of another capacity, is admitted, whatever other
\* calls for the key do meanwhile.
C19_CreatorAdmitted ==
    \A t \in Threads :
        Decided(t) /\ loc[t].made => loc[t].result = "admit"

\* C19, amended: the call that made the bucket, of capacity L, is admitted
\* whenever fewer than L calls were decided on the new bucket before its own
\* allow; alone on the key it is always admitted.
C19_CreatorAdmittedUnlessOvertaken ==
    \A t \in Threads :
        Decided(t) /\ loc[t].made /\ loc[t].ord <= loc[t].limit_per_min =>
            loc[t].result = "admit"

\* A call replaced a bucket of another capacity, another call got to the new
\* bucket first, and the creator was still admitted, second on its bucket.
C19_Witness ==
    \E t \in Threads :
        /\ pc[t] = "ret"
        /\ loc[t].made
        /\ loc[t].found # None
        /\ loc[t].ord = loc[t].limit_per_min
        /\ loc[t].ord > 1
        /\ loc[t].result = "admit"

\* C20: a call with L > 0 that finds its key registered with a bucket of
\* capacity L goes on with that very bucket, and its lookup changes neither
\* the registry nor any bucket; no step of a call that made no bucket
\* changes the registry.  The bucket's tokens and timestamp are thus what
\* the previous calls left.
C20_SameLimitReuses ==
    [][\A t \in Threads :
          /\ (/\ pc[t] = "c_get"
              /\ pc'[t] # "c_get"
              /\ buckets[loc[t].api_key] # None
              /\ heap[buckets[loc[t].api_key]].capacity = loc[t].limit_per_min)
             => /\ pc'[t] = "c_unlock"
                /\ loc'[t].bucket = buckets[loc[t].api_key]
                /\ ~loc'[t].made
                /\ buckets' = buckets
                /\ heap' = heap
          /\ (pc'[t] # pc[t] /\ ~loc'[t].made /\ pc[t] # "ret")
             => buckets' = buckets]_vars

\* A call with the registered capacity is about to test the tokens of the
\* bucket it found: a used bucket, not full even after its refill.
C20_Witness ==
    \E t \in Threads :
        /\ pc[t] = "a_check"
        /\ ~loc[t].made
        /\ loc[t].found # None
        /\ loc[t].bucket = loc[t].found
        /\ buckets[loc[t].api_key] = loc[t].found
        /\ hist[loc[t].found].nadmit > 0
        /\ loc[t].waited > 0
        /\ heap[loc[t].found].tokens < ToFloat(heap[loc[t].found].capacity)

\* allow(cost) run alone on a bucket that holds tokens and was last refilled
\* at ts, with the clock at clock: the bucket it leaves and its decision.
AllowAlone(capacity, rate, tokens, ts, clock, cost) ==
    LET refilled == tokens + (clock - ts) * rate
        clamped  == IF refilled > ToFloat(capacity) THEN ToFloat(capacity) ELSE refilled
    IN  IF clamped >= cost
        THEN [tokens |-> clamped - cost, ts |-> clock, result |-> "admit"]
        ELSE [tokens |-> clamped, ts |-> clock, result |-> "deny"]

\* The first n calls on bucket b run one after the other, in the order they
\* took the lock, each with the clock it read.
RECURSIVE OneByOne(_, _)
OneByOne(b, n) ==
    IF n = 0
    THEN [tokens |-> ToFloat(heap[b].capacity), ts |-> hist[b].created,
          result |-> "none"]
    ELSE LET prev == OneByOne(b, n - 1) IN
             AllowAlone(heap[b].capacity, heap[b].refill_rate_per_sec,
                        prev.tokens, prev.ts,
                        hist[b].calls[n][1], hist[b].calls[n][2])

\* The threads inside allow on bucket b, between the clock read and the
\* decision.
MidAllow(b) ==
    {t \in Threads : loc[t].bucket = b /\ pc[t] \in {"a_refill", "a_clamp", "a_check", "a_sub"}}

\* C21: concurrent allow calls on a bucket come out as if run one after the
\* other in the order they took the bucket lock, each with the clock it read
\* inside the lock: every call's decision is the decision of its place in
\* that order, and whenever no call is between its clock read and its
\* decision the bucket's tokens and last_refill_ts are those the run one by
\* one leaves.
C21_Linearizable ==
    /\ \A t \in Threads :
          pc[t] \in {"a_unlock", "ret"} /\ loc[t].bucket # None /\ Decided(t) =>
              /\ loc[t].ord <= Len(hist[loc[t].bucket].calls)
              /\ loc[t].result = OneByOne(loc[t].bucket, loc[t].ord).result
    /\ \A b \in Buckets :
          MidAllow(b) = {} =>
              LET final == OneByOne(b, Len(hist[b].calls)) IN
                  /\ heap[b].tokens = final.tokens
                  /\ heap[b].last_refill_ts = final.ts

\* Two threads were in allow on one bucket together, one waiting for the
\* lock the other held; both have now decided, one admitted and one denied,
\* and a third call has run on the bucket as well.
C21_Witness ==
    \E t \in Threads, u \in Threads :
        /\ t # u
        /\ pc[t] = "ret" /\ pc[u] = "a_unlock"
        /\ loc[t].bucket = loc[u].bucket
        /\ loc[u].bucket # None
        /\ loc[t].result = "admit" /\ loc[u].result = "deny"
        /\ loc[u].ord = loc[t].ord + 1
        /\ loc[u].now = loc[t].now
        /\ Len(hist[loc[u].bucket].calls) = 3

----------------------------------------------------------------------------
\* C23: the clock only moving forward, no step lowers a bucket's
\* last_refill_ts, the elapsed value of every allow is at least 0, and every
\* clock value an allow reads on a bucket, like the bucket's last_refill_ts,
\* is at least the clock value the bucket was constructed with.
C23_TimestampsMonotone ==
    /\ [](/\ \A t \in Threads : loc[t].elapsed >= 0
          /\ \A b \in Buckets :
                /\ heap[b].last_refill_ts >= hist[b].created
                /\ heap[b].last_refill_ts <= now
                /\ \A i \in 1..Len(hist[b].calls) :
                      hist[b].calls[i][1] >= hist[b].created)
    /\ [][\A b \in Buckets :
             heap'[b].last_refill_ts >= heap[b].last_refill_ts]_vars

\* Two threads in allow on one bucket: one read the clock after it had
\* advanced and moved the timestamp, the other read it afterwards.
C23_Witness ==
    \E t, u \in Threads :
        /\ t # u
        /\ loc[t].bucket = loc[u].bucket
        /\ loc[t].bucket \in Buckets
        /\ pc[t] = "ret"
        /\ loc[t].elapsed > 0
        /\ pc[u] = "a_refill"
        /\ loc[u].elapsed = 0
        /\ loc[u].now = loc[t].now
        /\ heap[loc[u].bucket].last_refill_ts > hist[loc[u].bucket].created

----------------------------------------------------------------------------
\* C24: on a key where every call so far found its limit different from the
\* capacity registered, so that every bucket of the key has served no call
\* but the one that made it, every decided call is admitted, whatever the
\* number of calls and the clock.
C24_AlternatingLimitsAdmitted ==
    \A k \in Keys :
        (\A b \in Buckets : hist[b].key = k => Len(hist[b].calls) <= 1)
            => \A t \in Threads :
                  Decided(t) /\ loc[t].api_key = k => loc[t].result = "admit"

\* Three calls for one key within one clock reading, the limits alternating:
\* three buckets were made, each replacing the one before, and each admitted
\* its maker, more calls than either limit allows in a minute.
C24_Witness ==
    /\ Len(heap) = 3
    /\ \A b \in Buckets :
          /\ hist[b].key = hist[1].key
          /\ hist[b].created = hist[1].created
          /\ hist[b].nadmit = 1
          /\ Len(hist[b].calls) = 1
    /\ heap[1].capacity = heap[3].capacity
    /\ heap[1].capacity # heap[2].capacity
    /\ buckets[hist[1].key] = 3

----------------------------------------------------------------------------
\* The threads inside bucket.allow, called at the end of check_rate_limit.
InAllow(t) ==
    pc[t] \in {"a_clock", "a_refill", "a_clamp", "a_check", "a_sub", "a_unlock"}

\* C25: every bucket made by check_rate_limit, registered or replaced, has a
\* capacity of at least 1 and refill_rate_per_sec = capacity / 60; every
\* registry entry is such a bucket; and a call check_rate_limit(key, L) runs
\* allow on a bucket of capacity L, whatever the registry holds for the key
\* by then.
C25_BucketMatchesLimit ==
    /\ \A b \in Buckets :
          /\ heap[b].capacity >= 1
          /\ heap[b].refill_rate_per_sec * SecPerMin = ToFloat(heap[b].capacity)
    /\ \A k \in Keys : buckets[k] # None => buckets[k] \in Buckets
    /\ \A t \in Threads :
          InAllow(t) =>
              /\ loc[t].bucket \in Buckets
              /\ heap[loc[t].bucket].capacity = loc[t].limit_per_min
              /\ hist[loc[t].bucket].key = loc[t].api_key

\* A call is inside allow on the bucket it looked up, while the registry
\* already holds, for its key, a bucket of another capacity made by a
\* concurrent call.
C25_Witness ==
    \E t \in Threads :
        /\ pc[t] = "a_check"
        /\ ~loc[t].made
        /\ buckets[loc[t].api_key] # loc[t].bucket
        /\ buckets[loc[t].api_key] # None
        /\ heap[buckets[loc[t].api_key]].capacity # loc[t].limit_per_min
        /\ heap[loc[t].bucket].capacity = loc[t].limit_per_min

----------------------------------------------------------------------------
\* mock_data_generator.py and fetch_orders of main.py: the operations on
\* the order table.  One session; the operations run one after the other.

\* order_by(MockMarketOrder.order_datetime)
Ascending(r, q) == orders[r].order_datetime <= orders[q].order_datetime

\* order_by(MockMarketOrder.order_datetime.desc())
Descending(r, q) == orders[r].order_datetime >= orders[q].order_datetime

\* The orders in which a query with ORDER BY order_datetime (descending or
\* not) may return the rows of matching: every arrangement of them that the
\* ordering allows, rows with equal keys in any order.
Orderings(matching, descending) ==
    {all \in [1..Cardinality(matching) -> matching] :
        /\ \A i, j \in DOMAIN all : i # j => all[i] # all[j]
        /\ \A i, j \in DOMAIN all :
              i < j => IF descending THEN Descending(all[i], all[j])
                                     ELSE Ascending(all[i], all[j])}

\* .offset(offset).limit(limit) on the rows in the order all
Page(all, offset, limit) ==
    [i \in 1..Max0(Min(limit, Len(all) - offset)) |-> all[offset + i]]

\* _create_mock_order(db, platform, order_datetime, global_seq, seller_id):
\* the status, the payment delay (of its range, either end) and the carrier
\* are drawn at random; the row is added to the session.
_create_mock_order(platform, order_datetime, seller_id) ==
    /\ batch.at = "idle"
    /\ Len(orders) < MaxOrders
    /\ \E status \in _choose_status(platform), delay \in {0, PayDelay},
          delivery \in _choose_delivery_company(platform) :
          LET status_raw == status[1]
              status_normalized == status[2]
              pay_datetime == IF status_normalized \in PaidStatuses
                              THEN order_datetime + delay ELSE NoTime
              shipping == status_normalized \in ShippingStatuses
          IN orders' = Append(orders,
                 MockMarketOrder(seller_id, platform, order_datetime,
                     pay_datetime, status_raw, status_normalized,
                     IF shipping THEN delivery ELSE <<Null, Null>>,
                     IF shipping THEN _generate_tracking_number(platform) ELSE Null,
                     FALSE))
    /\ UNCHANGED <<batch, fetch>>
    /\ UNCHANGED limiter

\* db.commit() at the end of generate_initial_mock_data and of
\* generate_hourly_new_orders: the pending rows are stored.
Commit ==
    /\ batch.at = "idle"
    /\ \E r \in DOMAIN orders : ~orders[r].stored
    /\ orders' = [r \in DOMAIN orders |-> [orders[r] EXCEPT !.stored = TRUE]]
    /\ UNCHANGED <<batch, fetch>>
    /\ UNCHANGED limiter

\* The rows the query of progress_order_statuses matches: stored (the
\* session does not flush before a query), in one of the three statuses of
\* NORMALIZED_STATUS_FLOW.
Progressable ==
    {r \in DOMAIN orders :
        /\ orders[r].stored
        /\ orders[r].status_normalized \in DOMAIN NORMALIZED_STATUS_FLOW}

\* Variant of ProgressQuery: .limit(max_rows) is missing.
ProgressQueryUnlimited(max_rows) ==
    /\ batch.at = "idle"
    /\ \E all \in Orderings(Progressable, FALSE) :
          batch' = [at |-> "loop", max_rows |-> max_rows, candidates |-> all,
                    i |-> 1, updated |-> 0, returned |-> NoCount,
                    before |-> orders]
    /\ UNCHANGED <<orders, fetch>>
    /\ UNCHANGED limiter

\* progress_order_statuses(db, max_rows): candidates = db.query(...)
\* .filter(...).order_by(order_datetime).limit(max_rows).all(); updated = 0
ProgressQuery(max_rows) ==
    /\ batch.at = "idle"
    /\ \E all \in Orderings(Progressable, FALSE) :
          batch' = [at |-> "loop", max_rows |-> max_rows,
                    candidates |-> Page(all, 0, max_rows),
                    i |-> 1, updated |-> 0, returned |-> NoCount,
                    before |-> orders]
    /\ UNCHANGED <<orders, fetch>>
    /\ UNCHANGED limiter

\* Variant of Progressed: only the two status columns are written.
ProgressedStatusOnly(order, next_status, delay, delivery) ==
    [order EXCEPT !.status_raw = next_status[1],
                  !.status_normalized = next_status[2]]

\* What one pass of the loop makes of order, next_status being the pair
\* _next_status returned, delay and delivery the random draws.
Progressed(order, next_status, delay, delivery) ==
    LET next_raw == next_status[1]
        next_norm == next_status[2]
        shipping == next_norm \in ShippingStatuses
        nocompany == Falsy(order.delivery_company)
                        \/ Falsy(order.delivery_company_code)
    IN [order EXCEPT
          !.status_raw = next_raw,
          !.status_normalized = next_norm,
          !.pay_datetime = IF @ = NoTime /\ next_norm \in PaidStatuses
                           THEN order.order_datetime + delay ELSE @,
          !.delivery_company = IF shipping /\ nocompany THEN delivery[1] ELSE @,
          !.delivery_company_code = IF shipping /\ nocompany THEN delivery[2] ELSE @,
          !.tracking_number = IF shipping /\ Falsy(@)
                              THEN _generate_tracking_number(order.platform) ELSE @]

\* One pass of for order in candidates: the row is skipped when its platform
\* string is no Platform or _next_status returns None, else advanced.
ProgressOne ==
    /\ batch.at = "loop"
    /\ batch.i <= Len(batch.candidates)
    /\ LET r == batch.candidates[batch.i]
           order == orders[r]
           current_norm == IF order.status_normalized = Null
                           THEN "" ELSE order.status_normalized
       IN IF ~IsPlatform(order.platform)
          THEN /\ batch' = [batch EXCEPT !.i = @ + 1]
               /\ UNCHANGED orders
          ELSE IF _next_status(order.platform, current_norm) = {}
          THEN /\ batch' = [batch EXCEPT !.i = @ + 1]
               /\ UNCHANGED orders
          ELSE /\ \E next_status \in _next_status(order.platform, current_norm),
                     delay \in {0, PayDelay},
                     delivery \in _choose_delivery_company(order.platform) :
                     orders' = [orders EXCEPT ![r] =
                                   Progressed(order, next_status, delay, delivery)]
               /\ batch' = [batch EXCEPT !.i = @ + 1, !.updated = @ + 1]
    /\ UNCHANGED fetch
    /\ UNCHANGED limiter

\* if updated: db.commit(); return updated
ProgressReturn ==
    /\ batch.at = "loop"
    /\ batch.i > Len(batch.candidates)
    /\ orders' = IF batch.updated > 0
                 THEN [r \in DOMAIN orders |-> [orders[r] EXCEPT !.stored = TRUE]]
                 ELSE orders
    /\ batch' = [batch EXCEPT !.at = "idle", !.returned = batch.updated]
    /\ UNCHANGED fetch
    /\ UNCHANGED limiter

\* The rows the query of fetch_orders matches.
Matching(platform, seller_id, start_date, end_date) ==
    {r \in DOMAIN orders :
        /\ orders[r].stored
        /\ orders[r].platform = platform
        /\ orders[r].seller_id = seller_id
        /\ start_date # NoTime => orders[r].order_datetime >= DayStart(start_date)
        /\ end_date # NoTime => orders[r].order_datetime <= DayEnd(end_date)}

\* fetch_orders(db, platform, seller_id, page, page_size, start_date, end_date)
fetch_orders(platform, seller_id, page, page_size, start_date, end_date) ==
    /\ LET call == [NoFetch EXCEPT !.platform = platform, !.seller_id = seller_id,
                       !.page = page, !.page_size = page_size,
                       !.start_date = start_date, !.end_date = end_date]
       IN IF page <= 0 \/ page_size <= 0 \/ page_size > MaxPageSize
          THEN fetch' = [call EXCEPT !.status = 400]
          ELSE \E all \in Orderings(Matching(platform, seller_id, start_date, end_date),
                                    TRUE) :
                  fetch' = [call EXCEPT !.status = 200, !.queried = TRUE,
                               !.result = Page(all, (page - 1) * page_size, page_size)]
    /\ UNCHANGED <<orders, batch>>
    /\ UNCHANGED limiter

\* Orders made by the generator, committed, and advanced by the batch.
InitOrders == Init

NextOrders ==
    \/ \E platform \in Platforms, day \in 0..MaxDay :
          _create_mock_order(platform, DayStart(day), 1)
    \/ Commit
    \/ \E max_rows \in 0..MaxRows : ProgressQuery(max_rows)
    \/ ProgressOne
    \/ ProgressReturn

SpecOrders == InitOrders /\ [][NextOrders]_vars

\* The limiter and the request layer at rest.
Idle ==
    /\ now = 0
    /\ heap = <<>>
    /\ buckets = [k \in Keys |-> None]
    /\ buckets_lock = Free
    /\ pc = [t \in Threads |-> "idle"]
    /\ loc = [t \in Threads |-> NoLocals]
    /\ hist = <<>>
    /\ budget = 0
    /\ req = [t \in Threads |-> NoRequest]

\* The batch on a table found as it is, rows of any origin, nothing inserted
\* meanwhile.
InitStored ==
    /\ Idle
    /\ orders \in Tables(StoredRows)
    /\ batch = NoBatch
    /\ fetch = NoFetch

NextStored ==
    \/ \E max_rows \in 0..MaxRows : ProgressQuery(max_rows)
    \/ ProgressOne
    \/ ProgressReturn

SpecStored == InitStored /\ [][NextStored]_vars

----------------------------------------------------------------------------
\* The rows the running or latest invocation of the batch found, and those
\* of them whose normalized status it has changed.
Found == 1..Len(batch.before)
Advanced == {r \in Found :
                orders[r].status_normalized # batch.before[r].status_normalized}

\* Row r is as the invocation found it, but for having been flushed.
Untouched(r) == orders[r] = [batch.before[r] EXCEPT !.stored = orders[r].stored]

\* C26: in and after an invocation of progress_order_statuses, every row is
\* either as the invocation found it or one step further along PAID ->
\* PREPARING_SHIPMENT -> SHIPPED -> DELIVERED; every row the loop has passed
\* is one step further unless its platform string is unknown; rows found in
\* DELIVERED or CANCELLED, or with an unknown platform string, are as found;
\* and the counter, like the value returned, is the number of rows advanced,
\* at most max_rows.
C26_OneStepAlongFlow ==
    /\ \A r \in Found :
          \/ Untouched(r)
          \/ /\ batch.before[r].status_normalized \in DOMAIN NORMALIZED_STATUS_FLOW
             /\ orders[r].status_normalized =
                   NORMALIZED_STATUS_FLOW[batch.before[r].status_normalized]
    /\ \A r \in Found :
          \/ batch.before[r].status_normalized \in {"DELIVERED", "CANCELLED"}
          \/ ~IsPlatform(batch.before[r].platform)
          => Untouched(r)
    /\ batch.at = "loop" =>
          /\ \A k \in 1..(batch.i - 1) :
                IsPlatform(orders[batch.candidates[k]].platform)
                    => batch.candidates[k] \in Advanced
          /\ batch.updated = Cardinality(Advanced)
          /\ batch.updated <= batch.max_rows
    /\ batch.at = "idle" /\ batch.returned # NoCount =>
          /\ batch.returned = Cardinality(Advanced)
          /\ batch.returned <= batch.max_rows

\* An invocation with max_rows = 1 has returned 1: of two rows it could
\* have advanced it advanced the older one, a row with an unknown platform
\* string being absent.
C26_Witness ==
    /\ batch.at = "idle"
    /\ batch.returned = 1
    /\ batch.max_rows = 1
    /\ Len(orders) = 2
    /\ \A r \in Found :
          /\ batch.before[r].status_normalized \in DOMAIN NORMALIZED_STATUS_FLOW
          /\ IsPlatform(orders[r].platform)
    /\ \E r \in Advanced, q \in Found :
          /\ Untouched(q)
          /\ orders[r].order_datetime < orders[q].order_datetime
          /\ orders[r].status_normalized = "SHIPPED"

----------------------------------------------------------------------------
\* C27: whatever _create_mock_order and progress_order_statuses have done,
\* every row in SHIPPED or DELIVERED has a carrier, a carrier code and a
\* tracking number, every row in PAID, PREPARING_SHIPMENT, SHIPPED or
\* DELIVERED has a payment time, and the raw status of every row is one of
\* those its platform lists for its normalized status.
C27_RowsConsistent ==
    \A r \in DOMAIN orders :
        LET order == orders[r] IN
          /\ order.status_normalized \in ShippingStatuses =>
                /\ ~Falsy(order.delivery_company)
                /\ ~Falsy(order.delivery_company_code)
                /\ ~Falsy(order.tracking_number)
          /\ order.status_normalized \in PaidStatuses =>
                order.pay_datetime # NoTime
          /\ IsPlatform(order.platform)
          /\ order.status_normalized \in Statuses
          /\ order.status_raw \in
                PLATFORM_STATUS_CHOICES[order.platform][order.status_normalized]

\* The batch has moved a row made without shipping data from
\* PREPARING_SHIPMENT to SHIPPED and filled the shipping columns, beside a
\* cancelled row that has no payment time.
C27_Witness ==
    /\ batch.at = "idle"
    /\ batch.returned = 1
    /\ \E r \in Advanced :
          /\ orders[r].status_normalized = "SHIPPED"
          /\ batch.before[r].tracking_number = Null
          /\ batch.before[r].delivery_company = Null
          /\ orders[r].tracking_number # Null
    /\ \E r \in DOMAIN orders :
          /\ orders[r].status_normalized = "CANCELLED"
          /\ orders[r].pay_datetime = NoTime

----------------------------------------------------------------------------
\* The batch invoked again and again, with max_rows >= 1, on a table whose
\* rows all have a valid platform, nothing inserted meanwhile.
InitRepeat ==
    /\ Idle
    /\ orders \in Tables({order \in StoredRows : IsPlatform(order.platform)})
    /\ batch = NoBatch
    /\ fetch = NoFetch

NextRepeat ==
    \/ \E max_rows \in 1..MaxRows : ProgressQuery(max_rows)
    \/ ProgressOne
    \/ ProgressReturn

SpecRepeat == InitRepeat /\ [][NextRepeat]_vars /\ WF_vars(NextRepeat)

\* No row is in a status the batch advances.
Settled(table) ==
    \A r \in DOMAIN table :
        table[r].status_normalized \notin DOMAIN NORMALIZED_STATUS_FLOW

----------------------------------------------------------------------------
\* fetch_orders called on a table found as it is.
InitFetch ==
    /\ Idle
    /\ orders \in Tables(FetchRows)
    /\ batch = NoBatch
    /\ fetch = NoFetch

\* The one call of a run.
FirstFetch(platform, seller_id, page, page_size, start_date, end_date) ==
    /\ fetch.status = 0
    /\ fetch_orders(platform, seller_id, page, page_size, start_date, end_date)

NextFetch ==
    \E platform \in Platforms, seller_id \in 1..MaxSeller,
       page \in (0 - 1)..MaxPage,
       page_size \in {0 - 1, 0, 1, 2, MaxPageSize, MaxPageSize + 1},
       start_date \in {NoTime} \cup (0..MaxDay),
       end_date \in {NoTime} \cup (0..MaxDay) :
        FirstFetch(platform, seller_id, page, page_size, start_date, end_date)

SpecFetch == InitFetch /\ [][NextFetch]_vars

\* The day a datetime falls on.
DayOf(datetime) == datetime \div DayLen

\* The rows that the latest fetch_orders call asked for: the platform, the
\* seller, and the day of order_datetime from start_date to end_date.
Asked ==
    {r \in DOMAIN orders :
        /\ orders[r].platform = fetch.platform
        /\ orders[r].seller_id = fetch.seller_id
        /\ fetch.start_date # NoTime => DayOf(orders[r].order_datetime) >= fetch.start_date
        /\ fetch.end_date # NoTime => DayOf(orders[r].order_datetime) <= fetch.end_date}

\* C29: fetch_orders ends with status 400, without querying, exactly when
\* page <= 0 or page_size is outside 1..100.  Otherwise it returns rows that
\* were asked for, each once: as many as are left after the first
\* (page - 1) * page_size of them, at most page_size, the row at place i
\* of the result being at place (page - 1) * page_size + i of the rows asked
\* for in descending order of order_datetime.
C29_PageOfMatches ==
    fetch.status # 0 =>
        LET offset == (fetch.page - 1) * fetch.page_size
            result == fetch.result
            Newer(r) == {q \in Asked :
                            orders[q].order_datetime > orders[r].order_datetime}
            NotOlder(r) == {q \in Asked :
                               orders[q].order_datetime >= orders[r].order_datetime}
        IN /\ fetch.status = 400 <=>
                 fetch.page <= 0 \/ fetch.page_size < 1 \/ fetch.page_size > 100
           /\ fetch.status = 400 => ~fetch.queried /\ result = <<>>
           /\ fetch.status # 400 =>
                 /\ fetch.status = 200
                 /\ fetch.queried
                 /\ Len(result) <= fetch.page_size
                 /\ Len(result) = Min(fetch.page_size,
                                      Max0(Cardinality(Asked) - offset))
                 /\ \A i \in DOMAIN result : result[i] \in Asked
                 /\ \A i, j \in DOMAIN result : i # j => result[i] # result[j]
                 /\ \A i \in DOMAIN result :
                       /\ Cardinality(Newer(result[i])) <= offset + i - 1
                       /\ Cardinality(NotOlder(result[i])) >= offset + i

\* Page 2 of size 1 of a seller's orders of day 0: of the two orders of that
\* day, the first hour's and the last hour's, the call returned the older.
C29_Witness ==
    /\ fetch.status = 200
    /\ fetch.page = 2
    /\ fetch.page_size = 1
    /\ fetch.start_date = 0
    /\ fetch.end_date = 0
    /\ Cardinality(Asked) = 2
    /\ Len(fetch.result) = 1
    /\ orders[fetch.result[1]].order_datetime = DayStart(0)
    /\ \E r \in Asked : orders[r].order_datetime = DayStart(0) + (DayLen - 1)

----------------------------------------------------------------------------
\* A request that has its response, made with a valid active key to the
\* endpoint of a platform other than the client's.
WrongPlatform(r) ==
    r.at = "done" /\ ValidKey(r) /\ r.row.platform # r.endpoint

\* The request's check_rate_limit call was admitted by allow on a bucket of
\* the request's key, or denied by allow on such a bucket.
TookToken(t) ==
    /\ req[t].allowed
    /\ req[t].bucket \in Buckets
    /\ hist[req[t].bucket].key = req[t].x_api_key
    /\ hist[req[t].bucket].nadmit >= 1

FoundExhausted(t) ==
    /\ ~req[t].allowed
    /\ req[t].bucket \in Buckets
    /\ hist[req[t].bucket].key = req[t].x_api_key
    /\ hist[req[t].bucket].ndeny >= 1

============================================================================
